---- MODULE Spec2Model ----
(***************************************************************************)
(* Model of the medication reminder sweep (scheduler.py check_reminders),  *)
(* the adherence query it polls, the logging endpoint that writes the log  *)
(* concurrently, the profile edit that changes a stored medication time,   *)
(* and the dashboard's next-occurrence computation.                        *)
(*                                                                         *)
(* Time is the wall clock in whole minutes since 00:00 of day 0.  A        *)
(* med_time text "HH:MM" is the pair <<HH, MM>> of its two number fields;  *)
(* the empty text is <<>>.  A date text "YYYY-MM-DD" is the day number, a  *)
(* timestamp text "YYYY-MM-DD HH:MM" is <<day, HH, MM>>.                   *)
(***************************************************************************)
EXTENDS Integers, Sequences, FiniteSets, TLC

\* ---------------------------------------------------------------- bounds
MaxLogs == 1        \* log writes in one behaviour
MaxDrift == 1       \* minutes by which the sleeps of one sweep overrun in total
MaxEdits == 1       \* profile edits in one behaviour
MaxCountdown == 3   \* longest countdown (hours) a sweep of Spec starts with

\* ------------------------------------------------------------- constants
MinutesPerHour == 60     \* 3600 seconds
HoursPerDay == 24        \* timedelta(days=1)
MinutesPerDay == MinutesPerHour * HoursPerDay

\* ----------------------------------------------------------------- inputs
UserIds == {1, 2}
\* wall-clock moments at which the sweep's process may start (day 0)
StartClocks == {240, 300, 330, 420, 450, 480, 1320, 1410}
\* medication times that registration accepts
ValidMedTimes == {<<8, 0>>, <<1, 0>>, <<6, 0>>}
\* med_time texts a users row may hold: add_user and edit_profile store the
\* text they are given
StoredMedTimes == ValidMedTimes \cup {<<25, 99>>}
\* moments and rows for the schedule computations on their own
CalcClocks == {h * MinutesPerHour + m : h \in 0..(HoursPerDay - 1), m \in {0, 1, 30, 59}}
\* med_time fields a profile form may carry: empty, valid, not a time
FormMedTimes == {<<>>, <<6, 0>>, <<25, 99>>}
\* action tags the logging form posts
Actions == {"medication", "water"}

VARIABLES
    clock,           \* datetime.now(), minutes
    users,           \* users table: id -> row
    logs,            \* logs table, in insertion order
    pc,              \* position of check_reminders
    snapshot,        \* users = fetchall()
    now,             \* now captured at line 50
    idx,             \* position of the for loop over users (1-based)
    med_time_today,  \* line 55-61
    time_remaining,  \* line 63, minutes
    hours_until,     \* line 64
    hour,            \* loop variable of line 73
    sent,            \* every send_email call of the sweep, in order
    lastSend,        \* outcome of the last send_email call
    cyc,             \* per user: what the sweep decided for that user's cycle
    drift,           \* minutes of sleep overrun so far
    nlogs,           \* log writes so far
    nedits,          \* profile edits so far
    dash             \* last dashboard computation

vars == <<clock, users, logs, pc, snapshot, now, idx, med_time_today,
          time_remaining, hours_until, hour, sent, lastSend, cyc, drift,
          nlogs, nedits, dash>>

sweepVars == <<pc, snapshot, now, idx, med_time_today, time_remaining,
               hours_until, hour, sent, lastSend, cyc, drift>>

\* ------------------------------------------------------- time and texts
DateOf(t) == t \div MinutesPerDay
TimeOfDay(t) == t % MinutesPerDay

\* datetime.now().strftime("%Y-%m-%d %H:%M")
StrftimeMinute(t) ==
    <<DateOf(t), TimeOfDay(t) \div MinutesPerHour, TimeOfDay(t) % MinutesPerHour>>

\* today.strftime("%Y-%m-%d")
StrftimeDate(t) == <<DateOf(t)>>

\* SQLite text comparison a >= b of zero-padded date/timestamp texts: field by
\* field, and a text that extends the other one is the greater
RECURSIVE TextGE(_, _)
TextGE(a, b) ==
    IF b = <<>> THEN TRUE
    ELSE IF a = <<>> THEN FALSE
    ELSE IF Head(a) # Head(b) THEN Head(a) > Head(b)
    ELSE TextGE(Tail(a), Tail(b))

\* datetime.strptime(s, "%H:%M"): the parsed fields, or ValueError
StrptimeHM(s) ==
    IF Len(s) = 2 /\ s[1] \in 0..(HoursPerDay - 1) /\ s[2] \in 0..(MinutesPerHour - 1)
    THEN [ok |-> TRUE, minutes |-> s[1] * MinutesPerHour + s[2]]
    ELSE [ok |-> FALSE, minutes |-> 0]

\* .replace(year=now.year, month=now.month, day=now.day)
ReplaceDate(parsed, t) == DateOf(t) * MinutesPerDay + parsed.minutes

\* faulty variant: the tie now == candidate rolls to tomorrow
NextOccurrenceGE(candidate, t) ==
    IF t >= candidate THEN candidate + MinutesPerDay ELSE candidate

\* scheduler.py: move to tomorrow if today's med time passed
NextOccurrence(candidate, t) ==
    IF t > candidate THEN candidate + MinutesPerDay ELSE candidate

\* faulty variant: the hours are rounded up
WholeHoursCeil(remaining) == (remaining + MinutesPerHour - 1) \div MinutesPerHour

\* int(time_remaining.total_seconds() // 3600)
WholeHours(remaining) == remaining \div MinutesPerHour

\* faulty variant: the query compares with the minute of now, not the date
HasTakenSinceNow(user_id, t) ==
    \E i \in 1..Len(logs) :
        /\ logs[i].user_id = user_id
        /\ logs[i].action = "medication"
        /\ TextGE(logs[i].timestamp, StrftimeMinute(t))

\* faulty variant: the query forgets the user_id filter
HasTakenAnyUser(user_id, t) ==
    \E i \in 1..Len(logs) :
        /\ logs[i].action = "medication"
        /\ TextGE(logs[i].timestamp, StrftimeDate(t))

\* faulty variant: the query asks for another action tag
HasTakenMedicine(user_id, t) ==
    \E i \in 1..Len(logs) :
        /\ logs[i].user_id = user_id
        /\ logs[i].action = "medicine"
        /\ TextGE(logs[i].timestamp, StrftimeDate(t))

\* ------------------------------------------------------- adherence query
HasTakenMedication(user_id, t) ==
    \E i \in 1..Len(logs) :
        /\ logs[i].user_id = user_id
        /\ logs[i].action = "medication"
        /\ TextGE(logs[i].timestamp, StrftimeDate(t))

\* ------------------------------------------------------------------ init
\* cyc[u], the record of user u's cycle in the sweep: the branch taken (mode),
\* hours_until (n), time_remaining, the next occurrence (due), the clock and
\* the number of log rows at the first adherence check (start, seen), whether
\* a 'medication' row of u was written while the cycle ran (logged), and
\* whether the cycle is over (closed)
NoCycle == [mode |-> "none", n |-> 0, remaining |-> 0, due |-> 0, start |-> 0,
            seen |-> 0, logged |-> FALSE, closed |-> FALSE]

InitRest ==
    /\ logs = <<>>
    /\ pc = "idle"
    /\ snapshot = <<>>
    /\ now = 0
    /\ idx = 0
    /\ med_time_today = 0
    /\ time_remaining = 0
    /\ hours_until = 0
    /\ hour = 0
    /\ sent = <<>>
    /\ lastSend = "none"
    /\ cyc = [u \in UserIds |-> NoCycle]
    /\ drift = 0
    /\ nlogs = 0
    /\ nedits = 0
    /\ dash = [user |-> 0, med_time |-> <<>>, at |-> 0, next_med |-> 0]

\* the hours_until line 64 computes for med_time text s at moment t
HoursUntilAt(s, t) ==
    WholeHours(NextOccurrence(ReplaceDate(StrptimeHM(s), t), t) - t)

Init ==
    /\ clock \in StartClocks
    /\ users \in [UserIds -> [med_time : StoredMedTimes]]
    /\ \A u \in UserIds :
          StrptimeHM(users[u].med_time).ok =>
              HoursUntilAt(users[u].med_time, clock) <= MaxCountdown
    /\ InitRest

InitCalc ==
    /\ clock \in CalcClocks
    /\ users \in [UserIds -> [med_time : ValidMedTimes]]
    /\ InitRest


\* --------------------------------------------------- pieces of the sweep
\* users = db.execute("SELECT * FROM users").fetchall(), in id order
SelectUsers ==
    [i \in 1..Cardinality(UserIds) |-> [id |-> i, med_time |-> users[i].med_time]]

\* the branch taken for one user after line 64: the skip of line 67-69, the
\* countdown of line 71, the final reminder of line 90, or nothing
Branch(taken, hu, remaining) ==
    IF taken THEN "satisfied"
    ELSE IF hu > 0 THEN "countdown"
    ELSE IF remaining <= MinutesPerHour THEN "final"
    ELSE "nothing"

\* faulty variant: the loop body ends with a break
RangeBreaks(h) == FALSE

\* faulty variant: the range runs down to 0
RangeContinuesToZero(h) == h - 1 >= 0

\* range(hours_until, 0, -1): whether an iteration follows the one for hour h
RangeContinues(h) == h - 1 > 0

\* faulty variant: send_email without its try/except
SendEmailUncaught(outcome) == outcome = "failed"

\* send_email: the try/except prints the failure; TRUE when an exception
\* leaves the function
SendEmailRaises(outcome) == FALSE

\* faulty variant: the final-reminder test is an if of its own after the countdown
AfterLoopFinal == "final_check"

\* after the for loop of line 73 has run out: the elif of line 90 belongs to
\* the if of line 71, so the final reminder is not reached
AfterLoop == "advance"

\* the for statement of line 52 takes the next user, or the sweep returns
Advance ==
    /\ idx' = idx + 1
    /\ pc' = IF idx + 1 > Len(snapshot) THEN "done" ELSE "examine"

CloseCycle(u) == cyc' = [cyc EXCEPT ![u].closed = TRUE]

Cur == snapshot[idx]

envVars == <<users, logs, nlogs, nedits, dash>>

\* ------------------------------------------------------- check_reminders
\* lines 46-50: snapshot of the users, and the one reading of the clock
StartSweep ==
    /\ pc = "idle"
    /\ snapshot' = SelectUsers
    /\ now' = clock
    /\ idx' = 1
    /\ pc' = IF Len(SelectUsers) = 0 THEN "done" ELSE "examine"
    /\ UNCHANGED <<clock, med_time_today, time_remaining, hours_until, hour,
                   sent, lastSend, cyc, drift>>
    /\ UNCHANGED envVars

\* lines 53-71 and 90: parse, schedule, first adherence check, branch
Examine ==
    /\ pc = "examine"
    /\ LET parsed == StrptimeHM(Cur.med_time)
           due == NextOccurrence(ReplaceDate(parsed, now), now)
           rem == due - now
           hu == WholeHours(rem)
           mode == Branch(HasTakenMedication(Cur.id, clock), hu, rem)
       IN IF ~parsed.ok
          THEN \* ValueError leaves check_reminders: nothing catches it
               /\ pc' = "crashed"
               /\ cyc' = [cyc EXCEPT ![Cur.id].mode = "crashed"]
               /\ UNCHANGED <<idx, med_time_today, time_remaining, hours_until, hour>>
          ELSE /\ med_time_today' = due
               /\ time_remaining' = rem
               /\ hours_until' = hu
               /\ cyc' = [cyc EXCEPT ![Cur.id] =
                            [mode |-> mode, n |-> hu, remaining |-> rem, due |-> due,
                             start |-> clock, seen |-> Len(logs), logged |-> FALSE,
                             closed |-> mode \in {"satisfied", "nothing"}]]
               /\ IF mode = "countdown"
                  THEN /\ hour' = hu
                       /\ pc' = "loop_check"
                       /\ idx' = idx
                  ELSE IF mode = "final"
                  THEN /\ pc' = "final_check"
                       /\ UNCHANGED <<idx, hour>>
                  ELSE /\ Advance
                       /\ hour' = hour
    /\ UNCHANGED <<clock, snapshot, now, sent, lastSend, drift>>
    /\ UNCHANGED envVars

\* lines 74-76: the re-check before a countdown send
LoopCheck ==
    /\ pc = "loop_check"
    /\ IF HasTakenMedication(Cur.id, clock)
       THEN /\ Advance
            /\ CloseCycle(Cur.id)
       ELSE /\ pc' = "send"
            /\ UNCHANGED <<idx, cyc>>
    /\ UNCHANGED <<clock, snapshot, now, med_time_today, time_remaining,
                   hours_until, hour, sent, lastSend, drift>>
    /\ UNCHANGED envVars

\* faulty variant: the sweep records each reminder as a row of the log
SendCountdownLogged ==
    /\ pc = "send"
    /\ \E outcome \in {"ok", "failed"} :
        /\ sent' = Append(sent, [to |-> snapshot[idx].id, kind |-> "countdown",
                                 hour |-> hour, at |-> clock])
        /\ lastSend' = outcome
        /\ pc' = "sleep"
    /\ logs' = Append(logs, [user_id |-> snapshot[idx].id, action |-> "reminder",
                             timestamp |-> StrftimeMinute(clock)])
    /\ UNCHANGED <<clock, snapshot, now, idx, med_time_today, time_remaining,
                   hours_until, hour, cyc, drift>>
    /\ UNCHANGED <<users, nlogs, nedits, dash>>

SendCountdown ==
    /\ pc = "send"
    /\ \E outcome \in {"ok", "failed"} :
        /\ sent' = Append(sent, [to |-> Cur.id, kind |-> "countdown",
                                 hour |-> hour, at |-> clock])
        /\ lastSend' = outcome
        /\ pc' = IF SendEmailRaises(outcome) THEN "crashed" ELSE "sleep"
    /\ UNCHANGED <<clock, snapshot, now, idx, med_time_today, time_remaining,
                   hours_until, hour, cyc, drift>>
    /\ UNCHANGED envVars

\* line 88: time.sleep(3600) returns after at least an hour; then the next
\* value of range(hours_until, 0, -1), or the loop ends
Sleep ==
    /\ pc = "sleep"
    /\ \E d \in 0..(MaxDrift - drift) :
        /\ clock' = clock + MinutesPerHour + d
        /\ drift' = drift + d
    /\ IF RangeContinues(hour)
       THEN /\ hour' = hour - 1
            /\ pc' = "loop_check"
            /\ UNCHANGED <<idx, cyc>>
       ELSE /\ IF AfterLoop = "advance"
               THEN /\ Advance
                    /\ CloseCycle(Cur.id)
               ELSE /\ pc' = "final_check"
                    /\ UNCHANGED <<idx, cyc>>
            /\ hour' = hour
    /\ UNCHANGED <<snapshot, now, med_time_today, time_remaining, hours_until,
                   sent, lastSend>>
    /\ UNCHANGED envVars

\* line 90, second operand: not has_taken_medication(user_id)
FinalCheck ==
    /\ pc = "final_check"
    /\ IF HasTakenMedication(Cur.id, clock)
       THEN /\ Advance
            /\ CloseCycle(Cur.id)
       ELSE /\ pc' = "send_final"
            /\ UNCHANGED <<idx, cyc>>
    /\ UNCHANGED <<clock, snapshot, now, med_time_today, time_remaining,
                   hours_until, hour, sent, lastSend, drift>>
    /\ UNCHANGED envVars

\* lines 91-97: the final reminder
SendFinal ==
    /\ pc = "send_final"
    /\ \E outcome \in {"ok", "failed"} :
        /\ sent' = Append(sent, [to |-> Cur.id, kind |-> "final",
                                 hour |-> 0, at |-> clock])
        /\ lastSend' = outcome
        /\ IF SendEmailRaises(outcome)
           THEN /\ pc' = "crashed"
                /\ UNCHANGED <<idx, cyc>>
           ELSE /\ Advance
                /\ CloseCycle(Cur.id)
    /\ UNCHANGED <<clock, snapshot, now, med_time_today, time_remaining,
                   hours_until, hour, drift>>
    /\ UNCHANGED envVars

\* ------------------------------------------------------ the web handlers
\* app.py log_action with database.py log_action: one row appended, stamped
\* with the minute of the request (an empty action is refused)
LogAction(user_id, action) ==
    /\ nlogs < MaxLogs
    /\ action # ""
    /\ logs' = Append(logs, [user_id |-> user_id, action |-> action,
                             timestamp |-> StrftimeMinute(clock)])
    /\ nlogs' = nlogs + 1
    /\ cyc' = [cyc EXCEPT ![user_id].logged =
                 @ \/ (action = "medication" /\ cyc[user_id].mode \in {"countdown", "final"}
                       /\ ~cyc[user_id].closed)]
    /\ UNCHANGED <<clock, users, nedits, dash>>
    /\ UNCHANGED <<pc, snapshot, now, idx, med_time_today, time_remaining,
                   hours_until, hour, sent, lastSend, drift>>

\* app.py edit_profile, POST: "med_time": med_time or user.get("med_time")
EditProfile(user_id, med_time) ==
    /\ nedits < MaxEdits
    /\ users' = [users EXCEPT ![user_id].med_time =
                    IF med_time # <<>> THEN med_time ELSE @]
    /\ nedits' = nedits + 1
    /\ UNCHANGED <<clock, logs, nlogs, dash>>
    /\ UNCHANGED sweepVars

\* app.py dashboard: next medication time
DashboardNextMed(med_time, t) ==
    LET parsed == StrptimeHM(med_time)
        scheduled_today == IF parsed.ok THEN ReplaceDate(parsed, t)
                           ELSE t + HoursPerDay * MinutesPerHour
    IN IF t > scheduled_today THEN scheduled_today + MinutesPerDay
       ELSE scheduled_today

Dashboard(user_id) ==
    /\ dash' = [user |-> user_id, med_time |-> users[user_id].med_time, at |-> clock,
                next_med |-> DashboardNextMed(users[user_id].med_time, clock)]
    /\ dash' # dash
    /\ UNCHANGED <<clock, users, logs, nlogs, nedits>>
    /\ UNCHANGED sweepVars

\* --------------------------------------------------------- specification
Next ==
    \/ StartSweep
    \/ Examine
    \/ LoopCheck
    \/ SendCountdown
    \/ Sleep
    \/ FinalCheck
    \/ SendFinal
    \/ \E u \in UserIds, a \in Actions : LogAction(u, a)

Spec == Init /\ [][Next]_vars

\* a failing adherence query: the sqlite3 error of has_taken_medication's
\* execute leaves check_reminders, which catches nothing
QueryFails ==
    /\ pc \in {"examine", "loop_check", "final_check"}
    /\ pc = "examine" => StrptimeHM(Cur.med_time).ok
    /\ pc' = "crashed"
    /\ cyc' = [cyc EXCEPT ![Cur.id].mode = IF pc = "examine" THEN "crashed" ELSE @]
    /\ UNCHANGED <<clock, snapshot, now, idx, med_time_today, time_remaining,
                   hours_until, hour, sent, lastSend, drift>>
    /\ UNCHANGED envVars

NextFault == Next \/ QueryFails

SpecFault == Init /\ [][NextFault]_vars

\* the schedule computations of the sweep and of the dashboard, at any time
\* of day, on rows that profile edits have changed
NextCalc ==
    \/ StartSweep
    \/ Examine
    \/ \E u \in UserIds, m \in FormMedTimes : EditProfile(u, m)
    \/ \E u \in UserIds : Dashboard(u)

SpecCalc == InitCalc /\ [][NextCalc]_vars


\* ------------------------------------------------------------- accounts
\* e-mail addresses a registration form may carry
Emails == {"a@x", "b@x"}
\* med_time fields a registration form may carry: empty, valid, not a time
RegisterMedTimes == ValidMedTimes \cup {<<>>, <<25, 99>>}

\* app.py register, POST: every field filled, the passwords acceptable, the
\* med_time parses, the e-mail is new; then the row is added.  A refused form
\* stores nothing.
Register(email, med_time, fields_ok, password_ok) ==
    /\ fields_ok /\ med_time # <<>>
    /\ password_ok
    /\ StrptimeHM(med_time).ok
    /\ \A u \in DOMAIN users : users[u].email # email
    /\ users' = Append(users, [email |-> email, med_time |-> med_time])
    /\ UNCHANGED <<clock, logs, nlogs, nedits, dash>>
    /\ UNCHANGED sweepVars

\* no account yet
InitAccounts ==
    /\ clock \in StartClocks
    /\ users = <<>>
    /\ InitRest

NextAccounts ==
    \/ \E e \in Emails, m \in RegisterMedTimes, f, p \in BOOLEAN : Register(e, m, f, p)
    \/ \E u \in DOMAIN users, m \in FormMedTimes : EditProfile(u, m)
    \/ \E u \in DOMAIN users : Dashboard(u)

SpecAccounts == InitAccounts /\ [][NextAccounts]_vars

\* ------------------------------------------------------------- progress
\* the steps of check_reminders: the process runs them one after the other
\* and time.sleep returns
SweepStep ==
    \/ StartSweep
    \/ Examine
    \/ LoopCheck
    \/ SendCountdown
    \/ Sleep
    \/ FinalCheck
    \/ SendFinal

SpecLive == Init /\ [][Next]_vars /\ WF_vars(SweepStep)

\* ================================================================ claims
\* the send_email calls of the sweep for user u, in order
NotifsTo(u) == SelectSeq(sent, LAMBDA x : x.to = u)

\* the sweep has taken its decision for user u
Examined(u) == cyc[u].mode \notin {"none", "crashed"}

\* a 'medication' row of u dated on the day of u's first adherence check was
\* in the log at that check
LoggedBefore(u) ==
    \E i \in 1..cyc[u].seen :
        /\ logs[i].user_id = u
        /\ logs[i].action = "medication"
        /\ logs[i].timestamp[1] = DateOf(cyc[u].start)

\* u's cycle is over and no 'medication' row of u was written while it ran
QuietCycle(u) == Examined(u) /\ cyc[u].closed /\ ~cyc[u].logged /\ ~LoggedBefore(u)

\* C1 (as claimed): once a 'medication' row of the user was written during the
\* user's countdown, the re-check that follows never lets a countdown send
\* through.
C1_RecheckAfterWriteStops ==
    [][(pc = "loop_check" /\ cyc[Cur.id].logged /\ pc' # pc) => pc' # "send"]_vars

\* C2: a countdown cycle with hours_until = N during which the user logs no
\* medication sends exactly N countdown reminders, stating N, N-1, .., 1 in that
\* order, each followed by a suspension of at least one hour.
C2_CountdownLength ==
    \A u \in UserIds :
        (QuietCycle(u) /\ cyc[u].n > 0) =>
            LET ns == NotifsTo(u) IN
            /\ Len(ns) = cyc[u].n
            /\ \A i \in 1..Len(ns) :
                /\ ns[i].kind = "countdown"
                /\ ns[i].hour = cyc[u].n - i + 1
                /\ i > 1 => ns[i].at >= ns[i - 1].at + MinutesPerHour
            /\ clock >= ns[Len(ns)].at + MinutesPerHour

C2_Witness ==
    \E u \in UserIds :
        /\ QuietCycle(u)
        /\ cyc[u].n = 3
        /\ Len(NotifsTo(u)) = 3
        /\ pc = "done"

\* C3: a user whose log held a 'medication' row of today when the sweep examined
\* them gets no notification at all in the sweep.
C3_Suppression ==
    \A u \in UserIds :
        (Examined(u) /\ LoggedBefore(u)) => NotifsTo(u) = <<>>

C3_Witness ==
    \E u \in UserIds :
        /\ Examined(u)
        /\ LoggedBefore(u)
        /\ cyc[u].n > 0
        /\ pc = "done"
        /\ Len(sent) > 0

\* C4 (as claimed): a user not logged, with at most one hour remaining, gets
\* exactly one notification, the final reminder.
C4_FinalAtOrUnderOneHour ==
    \A u \in UserIds :
        (QuietCycle(u) /\ cyc[u].remaining <= MinutesPerHour) =>
            /\ Len(NotifsTo(u)) = 1
            /\ NotifsTo(u)[1].kind = "final"

\* C4 (amended): a user not logged, with strictly less than one hour remaining
\* (hours_until = 0), gets exactly one notification, the final reminder, and no
\* countdown reminder.
C4_FinalUnderOneHour ==
    \A u \in UserIds :
        (QuietCycle(u) /\ cyc[u].remaining < MinutesPerHour) =>
            /\ cyc[u].n = 0
            /\ Len(NotifsTo(u)) = 1
            /\ NotifsTo(u)[1].kind = "final"

C4_Witness ==
    \E u \in UserIds :
        /\ QuietCycle(u)
        /\ cyc[u].remaining = 30
        /\ Len(NotifsTo(u)) = 1
        /\ NotifsTo(u)[1].kind = "final"

\* C5: with candidate = today's date at medication_time, the next occurrence is
\* on the day of now, at medication_time, when now <= candidate, and on the day
\* after when now > candidate; for the sweep and for the dashboard.
TodayAt(med_time, t) == DateOf(t) * MinutesPerDay + med_time[1] * MinutesPerHour + med_time[2]

FollowsTieBreak(med_time, t, next) ==
    /\ TimeOfDay(next) = TimeOfDay(TodayAt(med_time, t))
    /\ DateOf(next) = IF t <= TodayAt(med_time, t) THEN DateOf(t) ELSE DateOf(t) + 1

C5_TieBreak ==
    /\ \A i \in 1..Len(snapshot) :
          Examined(snapshot[i].id) =>
              FollowsTieBreak(snapshot[i].med_time, now, cyc[snapshot[i].id].due)
    /\ (dash.user # 0 /\ StrptimeHM(dash.med_time).ok) =>
          FollowsTieBreak(dash.med_time, dash.at, dash.next_med)

C5_Witness ==
    /\ pc # "idle"
    /\ Examined(snapshot[1].id)
    /\ now = TodayAt(snapshot[1].med_time, now)
    /\ cyc[snapshot[1].id].due = now
    /\ dash.user # 0
    /\ dash.at = TodayAt(dash.med_time, dash.at)
    /\ dash.next_med = dash.at

\* C6 (as claimed): when the sweep has stopped, every user of the snapshot whose
\* medication time parses has had the decision logic applied, whatever failed
\* for another user.
C6_FailureIsolation ==
    pc \in {"done", "crashed"} =>
        \A i \in 1..Len(snapshot) :
            StrptimeHM(snapshot[i].med_time).ok => cyc[snapshot[i].id].mode # "none"

\* C7: a send_email call, failed or not, is followed by the same position of
\* the sweep: the suspension after a countdown reminder, the next user after a
\* final reminder; nothing else of the sweep's state changes.
C7_SendFailureInvisible ==
    [][(sent' # sent) =>
          /\ pc' = IF pc = "send" THEN "sleep"
                   ELSE IF idx + 1 > Len(snapshot) THEN "done" ELSE "examine"
          /\ idx' = IF pc = "send" THEN idx ELSE idx + 1
          /\ Len(sent') = Len(sent) + 1
          /\ <<hour, hours_until, now, clock, snapshot>>' =
             <<hour, hours_until, now, clock, snapshot>>]_vars

C7_Witness ==
    /\ lastSend = "failed"
    /\ pc = "sleep"
    /\ hour >= 2

\* C8 (as claimed): no notification is sent later than the next occurrence
\* computed for its user's cycle.
C8_NoReminderAfterDue ==
    \A i \in 1..Len(sent) : sent[i].at <= cyc[sent[i].to].due

\* C9 (as claimed): a countdown cycle of a user who never logs ends with the
\* final reminder.
C9_CountdownThenFinal ==
    \A u \in UserIds :
        (QuietCycle(u) /\ cyc[u].n > 0) =>
            /\ NotifsTo(u) # <<>>
            /\ NotifsTo(u)[Len(NotifsTo(u))].kind = "final"

\* C9 (amended): a user whose cycle starts with hours_until > 0 never gets the
\* final reminder in that sweep; when they never log, the cycle ends with the
\* countdown reminder for 1 hour and nothing follows it.
C9_CountdownWithoutFinal ==
    \A u \in UserIds :
        (Examined(u) /\ cyc[u].n > 0) =>
            /\ \A i \in 1..Len(NotifsTo(u)) : NotifsTo(u)[i].kind # "final"
            /\ QuietCycle(u) =>
                  /\ NotifsTo(u) # <<>>
                  /\ NotifsTo(u)[Len(NotifsTo(u))].hour = 1

C9_Witness ==
    \E u \in UserIds :
        /\ QuietCycle(u)
        /\ cyc[u].n = 2
        /\ Len(NotifsTo(u)) = 2
        /\ u = snapshot[1].id
        /\ pc = "done"

\* C10: the notifications of one user's cycle are countdown reminders only,
\* each stating at least 1 hour, or exactly one final reminder; never both.
C10_Partition ==
    \A u \in UserIds :
        LET ns == NotifsTo(u) IN
        \/ \A i \in 1..Len(ns) : ns[i].kind = "countdown" /\ ns[i].hour >= 1
        \/ Len(ns) = 1 /\ ns[1].kind = "final" /\ ns[1].hour = 0

C10_Witness ==
    /\ pc = "done"
    /\ \E u, v \in UserIds :
        /\ Len(NotifsTo(u)) >= 2
        /\ NotifsTo(u)[1].kind = "countdown"
        /\ Len(NotifsTo(v)) = 1
        /\ NotifsTo(v)[1].kind = "final"


\* C11: users are processed one at a time in snapshot order: when a later
\* user is reached the earlier user's cycle is over, every notification of the
\* earlier user precedes every notification of the later one, and an
\* uncancelled countdown of N hours puts the later user's first check at least
\* N hours after the earlier user's.
C11_SequentialBlocking ==
    \A i, j \in 1..Len(snapshot) :
        (i < j /\ cyc[snapshot[j].id].mode # "none") =>
            LET u == snapshot[i].id
                v == snapshot[j].id
            IN /\ cyc[u].closed
               /\ \A a, b \in 1..Len(sent) :
                     (sent[a].to = u /\ sent[b].to = v) => a < b
               /\ (QuietCycle(u) /\ cyc[u].n > 0 /\ Examined(v)) =>
                     cyc[v].start >= cyc[u].start + cyc[u].n * MinutesPerHour

C11_Witness ==
    /\ Len(snapshot) = 2
    /\ QuietCycle(snapshot[1].id)
    /\ cyc[snapshot[1].id].n = 3
    /\ Examined(snapshot[2].id)
    /\ cyc[snapshot[2].id].start >= cyc[snapshot[1].id].start + 3 * MinutesPerHour
    /\ NotifsTo(snapshot[2].id) # <<>>

MinuteOf(ts) == ts[1] * MinutesPerDay + ts[2] * MinutesPerHour + ts[3]

FirstUserAt0800(t) ==
    /\ pc # "idle"
    /\ snapshot[1].med_time = <<8, 0>>
    /\ now = t

\* C14 (as claimed): medication_time 08:00, sweep at 05:00, no log rows:
\* hours_until is 2 and exactly two countdown reminders (2, then 1) are sent.
C14_TwoRemindersAt0500 ==
    (FirstUserAt0800(300) /\ Examined(snapshot[1].id) /\ ~LoggedBefore(snapshot[1].id)) =>
        /\ cyc[snapshot[1].id].n = 2
        /\ QuietCycle(snapshot[1].id) =>
              /\ Len(NotifsTo(snapshot[1].id)) = 2
              /\ NotifsTo(snapshot[1].id)[1].hour = 2
              /\ NotifsTo(snapshot[1].id)[2].hour = 1

\* C14 (amended): medication_time 08:00, no log rows: a sweep at exactly 05:00
\* has hours_until 3 and sends three countdown reminders (3, 2, 1); a sweep at
\* 05:30 has hours_until 2 and sends two (2, then 1); neither sends a final
\* reminder.
C14_RemindersAt0500And0530 ==
    \A t \in {300, 330} :
        (FirstUserAt0800(t) /\ Examined(snapshot[1].id) /\ ~LoggedBefore(snapshot[1].id)) =>
            LET u == snapshot[1].id
                n == IF t = 300 THEN 3 ELSE 2
            IN /\ cyc[u].n = n
               /\ QuietCycle(u) =>
                     /\ Len(NotifsTo(u)) = n
                     /\ \A i \in 1..Len(NotifsTo(u)) :
                           /\ NotifsTo(u)[i].kind = "countdown"
                           /\ NotifsTo(u)[i].hour = n - i + 1

C14_Witness ==
    /\ FirstUserAt0800(330)
    /\ QuietCycle(snapshot[1].id)
    /\ Len(NotifsTo(snapshot[1].id)) = 2
    /\ pc = "done"

\* C15 (as claimed): the hour count of every countdown reminder equals the
\* whole hours that remain, at the moment it is sent, until the user's next
\* medication time.
C15_StatedHoursAreReal ==
    \A i \in 1..Len(sent) :
        sent[i].kind = "countdown" =>
            LET med == snapshot[sent[i].to].med_time
                at == sent[i].at
                real == (IF at <= TodayAt(med, at) THEN TodayAt(med, at)
                         ELSE TodayAt(med, at) + MinutesPerDay) - at
            IN sent[i].hour * MinutesPerHour <= real
               /\ real < (sent[i].hour + 1) * MinutesPerHour

\* C16: the remaining time the sweep computes is at least 0 and under 24
\* hours, hours_until is its whole hours, in 0..23, and no countdown states
\* more than 23 hours.
C16_BoundedLookahead ==
    /\ \A u \in UserIds :
          Examined(u) =>
              /\ 0 <= cyc[u].remaining
              /\ cyc[u].remaining < HoursPerDay * MinutesPerHour
              /\ cyc[u].n \in 0..(HoursPerDay - 1)
              /\ cyc[u].n * MinutesPerHour <= cyc[u].remaining
              /\ cyc[u].remaining < (cyc[u].n + 1) * MinutesPerHour
    /\ hour \in 0..(HoursPerDay - 1)

C16_Witness ==
    \E u \in UserIds :
        /\ Examined(u)
        /\ cyc[u].n = HoursPerDay - 1
        /\ hour = HoursPerDay - 1
        /\ pc = "loop_check"


\* C17 (as claimed): every stored med_time parses as a 24-hour HH:MM time.
C17_StoredMedTimeValid ==
    \A u \in DOMAIN users : StrptimeHM(users[u].med_time).ok

\* the parts of the sweep's state that only check_reminders moves
SweepPosition == <<pc, idx, hour, sent, clock, snapshot, now>>

\* C18: a step of the sweep changes neither the users table nor the log; a
\* change of the log is one row appended, by a step that is not the sweep's.
C18_SweepReadOnly ==
    [][/\ SweepPosition' # SweepPosition => (users' = users /\ logs' = logs)
       /\ logs' # logs =>
             /\ Len(logs') = Len(logs) + 1
             /\ SubSeq(logs', 1, Len(logs)) = logs
             /\ SweepPosition' = SweepPosition]_vars

C18_Witness ==
    /\ pc = "done"
    /\ Len(sent) > 0
    /\ Len(logs) > 0
    /\ \E u \in UserIds : cyc[u].logged

\* C19: check_reminders completes on every snapshot of valid medication times;
\* in a countdown the reminders sent so far are the suspensions so far plus the
\* one in progress, never more than hours_until; and a user's decision, once
\* taken, is not taken again.
C19_SweepTerminates ==
    /\ [](pc \in {"loop_check", "send", "sleep"} =>
             /\ hour \in 1..hours_until
             /\ Len(NotifsTo(Cur.id)) =
                    hours_until - hour + (IF pc = "sleep" THEN 1 ELSE 0))
    /\ [][\A u \in UserIds :
             cyc[u].mode # "none" =>
                 /\ cyc'[u].mode = cyc[u].mode
                 /\ cyc'[u].start = cyc[u].start]_vars
    /\ (\A u \in UserIds : StrptimeHM(users[u].med_time).ok) => <>(pc = "done")

C19_Witness ==
    /\ pc = "done"
    /\ lastSend = "failed"
    /\ Len(logs) > 0
    /\ \A u \in UserIds : cyc[u].closed
    /\ \E u \in UserIds : Len(NotifsTo(u)) = 3

====
